---- MODULE Spec2Model ----
(***************************************************************************)
(* Model of compare_zip_md5 (src/TireProject.py, lines 31-93): download an *)
(* archive to latest.zip, hash its entries, compare with current_md5.txt   *)
(* and, on a change, extract the archive and store the new digest.         *)
(*                                                                         *)
(* The destination directory is modelled file by file.  One call is a run  *)
(* of the program counter pc from "idle" through the statements of the     *)
(* function to "ret" (the call has ended with `result`); Return hands      *)
(* control back to the caller.                                             *)
(***************************************************************************)
EXTENDS Integers, Sequences, FiniteSets, TLC

\* ---------------------------------------------------------------- bounds
\* Largest number of entries of a served archive.
MaxEntries == 2

\* ------------------------------------------------------------ the domain
AllNames == <<"a.txt", "b.txt", "c.txt">>

\* Names of archive entries and of extracted files (none is latest.zip or
\* current_md5.txt).
Names == {AllNames[k] : k \in 1..(IF MaxEntries < 3 THEN MaxEntries ELSE 3)}

\* Contents of archive entries.
Contents == {"hello", "world"}

\* A file of the destination directory: absent, or present with its data.
NoFile == [exists |-> FALSE, data |-> ""]

File(d) == [exists |-> TRUE, data |-> d]

\* latest.zip holds a sequence of written blocks, each one HTTP body.
NoZip == [exists |-> FALSE, data |-> << >>]

ZipFileOf(d) == [exists |-> TRUE, data |-> d]

Entries == [name : Names, content : Contents]

RECURSIVE SeqsUpTo(_, _)
SeqsUpTo(S, n) ==
    IF n = 0 THEN {<< >>}
    ELSE LET shorter == SeqsUpTo(S, n - 1)
         IN  shorter \cup {Append(s, e) : s \in shorter, e \in S}

NameIndex(n) == CHOOSE k \in 1..Len(AllNames) : AllNames[k] = n

\* Entry names of one archive are distinct; the served archives list them
\* in the order of AllNames.
InNameOrder(s) ==
    \A p, q \in 1..Len(s) : p < q => NameIndex(s[p].name) < NameIndex(s[q].name)

\* The entry lists of the archives a server may send, in listing order.
Archives == {s \in SeqsUpTo(Entries, MaxEntries) : InNameOrder(s)}

\* An HTTP body: a zip archive with its entries, or bytes that are no archive
\* (an error page).
Garbage == [zip |-> FALSE, entries |-> << >>]

ZipBody(es) == [zip |-> TRUE, entries |-> es]

Bodies == {ZipBody(es) : es \in Archives} \cup {Garbage}

\* An HTTP response: status line, body, and whether it carries Content-Length.
Responses == [status : {200, 404}, body : Bodies, hasLength : BOOLEAN]

\* Responses of a server that announces Content-Length.
LengthResponses == {r \in Responses : r.hasLength}

\* The scenario of a single-entry archive under one name, served with
\* success.
ScenarioResponses ==
    {r \in Responses : /\ r.status = 200
                       /\ r.body.zip
                       /\ Len(r.body.entries) = 1
                       /\ r.body.entries[1].name = AllNames[1]}

NoResponse == [status |-> 0, body |-> Garbage, hasLength |-> FALSE]

\* hashlib.md5(...).hexdigest() of an entry's content.
md5hex(c) ==
    CASE c = "hello" -> "5d41402abc4b2a76b9719d911017c592"
      [] c = "world" -> "7d793037a0760186574b0282f2f435e7"

\* ------------------------------------------------------------- the state
VARIABLES
    pc,         \* position in compare_zip_md5, "idle" between calls
    resp,       \* `request`: the response of the call in progress
    table,      \* comparison_table
    idx,        \* extractall: index of the next entry to extract
    result,     \* how the most recent call ended
    files,      \* destination directory: extracted files by name
    md5txt,     \* destination directory: current_md5.txt
    latest,     \* destination directory: latest.zip
    preFiles,   \* files when the call in progress started
    preMd5,     \* current_md5.txt when the call in progress started
    prev,       \* body and result of the call before the one in progress
    lastTrue    \* first-entry digest of the last archive a call returned True for

vars == <<pc, resp, table, idx, result, files, md5txt, latest,
          preFiles, preMd5, prev, lastTrue>>

\* The archive zipfile.ZipFile finds in a file: the end-of-central-directory
\* record is searched from the end of the file and data before the archive
\* is tolerated, so the last written body decides.
IsZip(f) == f.exists /\ Len(f.data) > 0 /\ f.data[Len(f.data)].zip

NameList(f) == f.data[Len(f.data)].entries

\* Lines 51-61: one digest per entry, in listing order.
Digests(es) == [k \in 1..Len(es) |-> md5hex(es[k].content)]

\* A removal that leaves the file in place.
RemoveLatestKeeps(f) == f

\* os.remove(destination + "/latest.zip")
RemoveLatest(f) == NoZip

\* ------------------------------------------------------------------ Init
Init ==
    /\ pc = "idle"
    /\ resp = NoResponse
    /\ table = << >>
    /\ idx = 0
    /\ result = "none"
    /\ files \in [Names -> {NoFile} \cup {File(c) : c \in Contents}]
    /\ md5txt \in {NoFile} \cup {File(md5hex(c)) : c \in Contents}
    /\ latest = NoZip
    /\ preFiles = files
    /\ preMd5 = md5txt
    /\ prev = [body |-> Garbage, result |-> "none"]
    /\ lastTrue = md5txt

\* The call ends with outcome r.
Finish(r) ==
    /\ pc' = "ret"
    /\ result' = r

\* Lines 34-38: requests.get and raise_for_status.  An HTTPError is caught
\* and reported, and the function goes on with the response it got.
Fetch(R) ==
    /\ pc = "idle"
    /\ \E r \in R :
        /\ resp' = r
        /\ pc' = "download"
    /\ preFiles' = files
    /\ preMd5' = md5txt
    /\ UNCHANGED <<table, idx, result, files, md5txt, latest, prev, lastTrue>>

\* Line 35: requests.get raises (no connection); the exception is not an
\* HTTPError and leaves the function.
FetchRaises ==
    /\ pc = "idle"
    /\ resp' = NoResponse
    /\ preFiles' = files
    /\ preMd5' = md5txt
    /\ Finish("Raised")
    /\ UNCHANGED <<table, idx, files, md5txt, latest, prev, lastTrue>>

\* Lines 39-47: latest.zip is opened for writing (truncated), request.content
\* is written, Content-Length is read (int(None) raises TypeError when the
\* header is missing), and iter_content, which replays the content already
\* read, is written after it.
Download ==
    /\ pc = "download"
    /\ IF resp.hasLength
       THEN /\ latest' = ZipFileOf(<<resp.body, resp.body>>)
            /\ pc' = "open"
            /\ UNCHANGED result
       ELSE /\ latest' = ZipFileOf(<<resp.body>>)
            /\ Finish("Raised")
    /\ UNCHANGED <<resp, table, idx, files, md5txt, preFiles, preMd5, prev, lastTrue>>

\* Lines 50-61: open the archive (BadZipFile when it is none) and hash every
\* entry.
OpenArchive ==
    /\ pc = "open"
    /\ IF IsZip(latest)
       THEN /\ table' = Digests(NameList(latest))
            /\ pc' = "compare"
            /\ UNCHANGED result
       ELSE /\ Finish("Raised")
            /\ UNCHANGED table
    /\ UNCHANGED <<resp, idx, files, md5txt, latest, preFiles, preMd5, prev, lastTrue>>

\* Lines 64-73 and 82-85: read current_md5.txt, append it to the table and
\* compare the table's first two elements.
Compare ==
    /\ pc = "compare"
    /\ IF md5txt.exists
       THEN LET t == Append(table, md5txt.data)
            IN  /\ table' = t
                /\ IF Len(t) < 2
                   THEN \* IndexError, line 82: reported, the function ends
                        /\ Finish("None")
                        /\ UNCHANGED <<idx, latest>>
                   ELSE IF t[1] = t[2]
                   THEN /\ latest' = RemoveLatest(latest)
                        /\ Finish("False")
                        /\ UNCHANGED idx
                   ELSE /\ pc' = "extract"
                        /\ idx' = 1
                        /\ UNCHANGED <<result, latest>>
       ELSE \* FileNotFoundError, line 84
            /\ pc' = "extract"
            /\ idx' = 1
            /\ UNCHANGED <<table, result, latest>>
    /\ UNCHANGED <<resp, files, md5txt, preFiles, preMd5, prev, lastTrue>>

\* Lines 74 and 86: extractall, one entry at a time.
ExtractEntry ==
    /\ pc = "extract"
    /\ idx <= Len(NameList(latest))
    /\ LET e == NameList(latest)[idx]
       IN  files' = [files EXCEPT ![e.name] = File(e.content)]
    /\ idx' = idx + 1
    /\ UNCHANGED <<pc, resp, table, result, md5txt, latest, preFiles, preMd5, prev, lastTrue>>

\* Lines 75-76 and 87-88: after extractall, close the archive and remove
\* latest.zip.
RemoveZip ==
    /\ pc = "extract"
    /\ idx > Len(NameList(latest))
    /\ latest' = RemoveLatest(latest)
    /\ pc' = "openmd5"
    /\ UNCHANGED <<resp, table, idx, result, files, md5txt, preFiles, preMd5, prev, lastTrue>>

\* Lines 77 and 89: open current_md5.txt with "w+": created or truncated.
OpenMd5 ==
    /\ pc = "openmd5"
    /\ md5txt' = File("")
    /\ pc' = "writemd5"
    /\ UNCHANGED <<resp, table, idx, result, files, latest, preFiles, preMd5, prev, lastTrue>>

\* Lines 78-81 and 90-93: write comparison_table[0] and close; an empty table
\* raises IndexError, which no handler catches here.
WriteMd5 ==
    /\ pc = "writemd5"
    /\ IF Len(table) = 0
       THEN /\ Finish("Raised")
            /\ UNCHANGED <<md5txt, lastTrue>>
       ELSE /\ md5txt' = File(table[1])
            /\ lastTrue' = File(md5hex(resp.body.entries[1].content))
            /\ Finish("True")
    /\ UNCHANGED <<resp, table, idx, files, latest, preFiles, preMd5, prev>>

\* The call is over: control is back at the caller.
Return ==
    /\ pc = "ret"
    /\ pc' = "idle"
    /\ prev' = [body |-> resp.body, result |-> result]
    /\ resp' = NoResponse
    /\ table' = << >>
    /\ idx' = 0
    /\ preFiles' = files
    /\ preMd5' = md5txt
    /\ UNCHANGED <<result, files, md5txt, latest, lastTrue>>

\* The process dies inside a call; the disk stays as the statements executed
\* so far left it (the digest reaches current_md5.txt when the file is
\* closed, line 79 or 91).
Crash ==
    /\ pc \in {"download", "open", "compare", "extract", "openmd5", "writemd5"}
    /\ Finish(IF pc \in {"extract", "openmd5", "writemd5"}
              THEN "CrashedUpdating" ELSE "CrashedEarly")
    /\ UNCHANGED <<resp, table, idx, files, md5txt, latest, preFiles, preMd5,
                   prev, lastTrue>>

InitEmpty ==
    /\ Init
    /\ files = [n \in Names |-> NoFile]
    /\ md5txt = NoFile

Run ==
    \/ Download
    \/ OpenArchive
    \/ Compare
    \/ ExtractEntry
    \/ RemoveZip
    \/ OpenMd5
    \/ WriteMd5
    \/ Return

Next == Fetch(Responses) \/ FetchRaises \/ Run

NextLength == Fetch(LengthResponses) \/ FetchRaises \/ Run

NextScenario == Fetch(ScenarioResponses) \/ Run

NextCrash == Fetch(LengthResponses) \/ Run \/ Crash

\* Any server, any response.
Spec == Init /\ [][Next]_vars

\* A server that announces Content-Length with every response.
SpecLength == Init /\ [][NextLength]_vars

\* Empty destination directory, single-entry archives under one name.
SpecScenario == InitEmpty /\ [][NextScenario]_vars

\* SpecLength with crashes of the process.
SpecCrash == Init /\ [][NextCrash]_vars

\* ------------------------------------------------------------ the claims
\* The call in progress has ended and was served, with success, an archive
\* of at least n entries.
Served(n) ==
    /\ pc = "ret"
    /\ resp.status = 200
    /\ resp.body.zip
    /\ Len(resp.body.entries) >= n

FirstDigest == md5hex(resp.body.entries[1].content)

AllExtracted ==
    \A k \in 1..Len(resp.body.entries) :
        files[resp.body.entries[k].name] = File(resp.body.entries[k].content)

\* C1: a call served an archive (of one or more entries) whose first entry's
\* digest equals the digest in current_md5.txt returns False and leaves the
\* extracted files and current_md5.txt as they were.
C1_UnchangedReturnsFalse ==
    (Served(1) /\ preMd5 = File(FirstDigest))
        => /\ result = "False"
           /\ files = preFiles
           /\ md5txt = preMd5

\* C2: a call served an archive of at least one entry, with current_md5.txt
\* absent or different from the first entry's digest, returns True, and then
\* every entry is in the destination directory and current_md5.txt holds the
\* first entry's digest.
C2_ChangedReturnsTrue ==
    (Served(1) /\ preMd5 # File(FirstDigest))
        => /\ result = "True"
           /\ AllExtracted
           /\ md5txt = File(FirstDigest)

\* C3: the second of two successive calls served the same archive (of at
\* least one entry) returns False and leaves the disk as the first call left
\* it, latest.zip absent.
C3_Idempotent ==
    (Served(1) /\ prev.body = resp.body /\ prev.result \in {"True", "False"})
        => /\ result = "False"
           /\ files = preFiles
           /\ md5txt = preMd5
           /\ ~latest.exists

\* C4: after a response with a non-success status the call neither opens nor
\* hashes nor extracts anything, and ends with the destination directory as
\* before: no latest.zip, no file extracted, current_md5.txt as it was.
C4_FetchFailureAborts ==
    resp.status = 404
        => /\ pc \in {"download", "ret"}
           /\ pc = "ret" => /\ ~latest.exists
                            /\ files = preFiles
                            /\ md5txt = preMd5

\* C5: between calls current_md5.txt, when it exists, holds the first-entry
\* digest of the last archive a call returned True for, and a call that does
\* not return True leaves current_md5.txt as it was (absent or unchanged).
C5_RecordReflectsLastChange ==
    /\ (pc = "idle" /\ md5txt.exists) => md5txt = lastTrue
    /\ (pc = "ret" /\ result # "True") => md5txt = preMd5

\* C6: a call that downloaded an archive of zero entries ends with the outcome
\* None (neither False nor True, no exception) and has changed neither the
\* extracted files nor current_md5.txt.
C6_EmptyArchiveIndeterminate ==
    (Served(0) /\ Len(resp.body.entries) = 0)
        => /\ result = "None"
           /\ files = preFiles
           /\ md5txt = preMd5

\* C7: latest.zip does not exist when a call has ended with True or False,
\* and on the changed path it is removed only after every entry has been
\* extracted.
C7_TempFileRemoved ==
    /\ (pc = "ret" /\ result \in {"True", "False"}) => ~latest.exists
    /\ (pc = "extract" /\ idx <= Len(resp.body.entries)) => latest.exists
    /\ (pc \in {"extract", "openmd5", "writemd5"} /\ ~latest.exists) => AllExtracted

\* A call on the changed path of a two-entry archive has ended with True and
\* latest.zip is gone.
C7_Witness ==
    /\ Served(2)
    /\ result = "True"
    /\ ~latest.exists
    /\ AllExtracted

\* C8: from an empty destination directory, with every call served a
\* single-entry archive under one name: the first call returns True, a later
\* call returns True exactly when the content differs from the content served
\* to the call before it and False otherwise, and after every call the
\* extracted file holds the served content and current_md5.txt its digest.
C8_SingleEntryScenario ==
    pc = "ret"
        => LET e == resp.body.entries[1]
               changed == \/ prev.result = "none"
                          \/ prev.body.entries[1].content # e.content
           IN  /\ result = (IF changed THEN "True" ELSE "False")
               /\ files[e.name] = File(e.content)
               /\ md5txt = File(md5hex(e.content))

\* C9: current_md5.txt is written only after every entry has been extracted,
\* and the call that follows a crash between the start of the extraction and
\* the completed write of the digest, served the same archive again, returns
\* True.
C9_CrashRedetects ==
    /\ (pc = "writemd5" \/ (pc = "ret" /\ result = "True")) => AllExtracted
    /\ ( /\ pc = "ret"
         /\ prev.result = "CrashedUpdating"
         /\ prev.body = resp.body
         /\ result \in {"True", "False", "None", "Raised"} )
        => result = "True"

\* C10: when the archive is about to be opened after a successful fetch,
\* latest.zip holds the response body, written once.
C10_BodyWrittenOnce ==
    (pc = "open" /\ resp.status = 200) => latest = ZipFileOf(<<resp.body>>)

====
